---------------------------- MODULE Spec2Model ----------------------------
(***************************************************************************)
(* Model of the SCB-months / DAIOE merge pipeline (src/main.py).           *)
(*                                                                         *)
(* A LazyFrame is modelled by the rows it denotes when collected: a        *)
(* sequence of records.  Nullable column values are options: Null is the   *)
(* empty sequence and Some(x) the one-element sequence <<x>>.  Strings are *)
(* sequences of one-character strings, so that prefix tests and the regex  *)
(* extraction are computed character by character.                         *)
(***************************************************************************)
EXTENDS Integers, Sequences, FiniteSets, TLC

VARIABLES
    pc,             \* position in main() / in the function under study
    dataDirExists,  \* the data directory exists on disk
    outFile,        \* what this run wrote at output_path
    log,            \* history: the effects main() has performed, in order
    scb_src,        \* remote content behind SCB_SOURCE
    daioe_src,      \* remote content behind DAIOE_SOURCE
    scb_lf,         \* main: scb_lf
    daioe_lf,       \* main: daioe_lf
    scb_clean_lf,   \* main: scb_clean_lf
    daioe_lvl1_lf,  \* main: daioe_lvl1_lf
    scb_months_lf   \* main: scb_months_lf

vars == <<pc, dataDirExists, outFile, log, scb_src, daioe_src, scb_lf,
          daioe_lf, scb_clean_lf, daioe_lvl1_lf, scb_months_lf>>

----------------------------------------------------------------------------
(* Bounds of the model *)

MaxScbRows == 2
MaxDaioeRows == 2
MainScbRows == 2
MainDaioeRows == 2

----------------------------------------------------------------------------
(* Nullable values and strings *)

Null == <<>>
Some(x) == <<x>>
Get(o) == o[1]

Str1 == <<"1">>
Str0 == <<"0">>
Str01 == <<"0", "1">>
Str10 == <<"1", "0">>
StrEmpty == <<>>

M2020M01 == <<"2", "0", "2", "0", "M", "0", "1">>
M2021M12 == <<"2", "0", "2", "1", "M", "1", "2">>
M20M1 == <<"2", "0", "M", "1">>
M202 == <<"2", "0", "2">>
MSp2020 == <<" ", "2", "0", "2", "0">>

SSYK1 == <<"S", "S", "Y", "K", "1">>
SSYK2 == <<"S", "S", "Y", "K", "2">>

DigitChars == <<"0", "1", "2", "3", "4", "5", "6", "7", "8", "9">>
Digits == {DigitChars[i] : i \in 1..10}
DigitVal(c) == (CHOOSE i \in 1..10 : DigitChars[i] = c) - 1

\* pl.Expr.str.starts_with: null in, null out
str_starts_with(col, prefix) ==
    IF col = Null THEN Null
    ELSE Some(/\ Len(Get(col)) >= Len(prefix)
              /\ SubSeq(Get(col), 1, Len(prefix)) = prefix)

not_dropped(b) == b

\* the ~ operator on a nullable boolean (Kleene): null stays null
not_(b) == IF b = Null THEN Null ELSE Some(~Get(b))

\* LazyFrame.filter keeps the rows whose predicate is true; false and null go
\* (mask is the predicate's value on each row)
RECURSIVE filter(_, _)
filter(rows, mask) ==
    IF rows = <<>> THEN <<>>
    ELSE (IF Head(mask) = Some(TRUE) THEN <<Head(rows)>> ELSE <<>>)
         \o filter(Tail(rows), Tail(mask))

\* str.extract(r"^(\d{4})", 1): capture group 1, null when nothing matches
str_extract(col) ==
    IF col = Null THEN Null
    ELSE LET s == Get(col)
         IN IF Len(s) >= 4 /\ \A i \in 1..4 : s[i] \in Digits
            THEN Some(SubSeq(s, 1, 4))
            ELSE Null

RECURSIVE ParseDigits(_)
ParseDigits(s) ==
    IF s = <<>> THEN 0
    ELSE 10 * ParseDigits(SubSeq(s, 1, Len(s) - 1)) + DigitVal(s[Len(s)])

\* the strict cast String -> Int64 raises on a non-null value that is no integer
cast_raises(col) ==
    col # Null /\ (Get(col) = <<>> \/ \E i \in 1..Len(Get(col)) : Get(col)[i] \notin Digits)

cast_int64(col) == IF col = Null THEN Null ELSE Some(ParseDigits(Get(col)))

----------------------------------------------------------------------------
(* clean_scb_months *)

NotMilitary(r) == not_(str_starts_with(r.code_1, Str0))

YearOf(r) == cast_int64(str_extract(r.month))

with_year(r) ==
    [code_1 |-> r.code_1, month |-> r.month, value |-> r.value, year |-> YearOf(r)]

clean_scb_months(lf) ==
    LET kept == filter(lf, [i \in 1..Len(lf) |-> NotMilitary(lf[i])])
    IN [i \in 1..Len(kept) |-> with_year(kept[i])]

\* collecting the cleaned frame raises iff the strict cast meets a bad value
clean_raises(lf) ==
    LET kept == filter(lf, [i \in 1..Len(lf) |-> NotMilitary(lf[i])])
    IN \E i \in 1..Len(kept) : cast_raises(str_extract(kept[i].month))

----------------------------------------------------------------------------
(* prepare_daioe_level1 *)

\* pl.col("level") == "SSYK1": null in, null out
IsLevel1(r) == IF r.level = Null THEN Null ELSE Some(r.level = Some(SSYK1))

\* the select keeps the keys, weight_sum and the daioe_ / pctl_daioe_ columns
Project(r) ==
    [level |-> r.level, ssyk_code |-> r.ssyk_code, year |-> r.year,
     weight_sum |-> r.weight_sum, daioe_genai |-> r.daioe_genai,
     pctl_daioe_genai |-> r.pctl_daioe_genai]

Selected(lf) ==
    LET kept == filter(lf, [i \in 1..Len(lf) |-> IsLevel1(lf[i])])
    IN [i \in 1..Len(kept) |-> Project(kept[i])]

KeyOf(r) == <<r.level, r.ssyk_code, r.year>>

\* group_by: one group per distinct key; a null key value is a key like any other
GroupKeys(rows) == {KeyOf(rows[i]) : i \in 1..Len(rows)}

Group(rows, k) == SelectSeq(rows, LAMBDA r : KeyOf(r) = k)

RECURSIVE SumSeq(_)
SumSeq(s) == IF s = <<>> THEN 0 ELSE Head(s) + SumSeq(Tail(s))

Column(rows, name) == [i \in 1..Len(rows) |-> rows[i][name]]

\* the non-null values of a column
NonNull(col) ==
    LET some == SelectSeq(col, LAMBDA v : v # Null)
    IN [i \in 1..Len(some) |-> Get(some[i])]

RECURSIVE Gcd(_, _)
Gcd(a, b) == IF b = 0 THEN a ELSE Gcd(b, a % b)

Abs(x) == IF x < 0 THEN -x ELSE x

\* mean(): nulls are skipped, a group of nulls has a null mean.  The Float64
\* result is kept exactly as the reduced fraction <<numerator, denominator>>.
mean(vals) ==
    IF vals = <<>> THEN Null
    ELSE LET n == Len(vals)
             t == SumSeq(vals)
             g == Gcd(Abs(t), n)
         IN Some(<<t \div g, n \div g>>)

float_to_int64_rounded(m) ==
    IF m = Null THEN Null
    ELSE Some((2 * Get(m)[1] + Get(m)[2]) \div (2 * Get(m)[2]))

\* cast Float64 -> Int64 drops the fraction (toward zero)
float_to_int64(m) ==
    IF m = Null THEN Null
    ELSE LET num == Get(m)[1]
             den == Get(m)[2]
         IN Some(IF num >= 0 THEN num \div den ELSE -((-num) \div den))

AggRow(rows, k) ==
    LET g == Group(rows, k)
    IN [level |-> k[1], ssyk_code |-> k[2], year |-> k[3],
        weight_sum |-> float_to_int64(mean(NonNull(Column(g, "weight_sum")))),
        daioe_genai |-> mean(NonNull(Column(g, "daioe_genai"))),
        pctl_daioe_genai |-> mean(NonNull(Column(g, "pctl_daioe_genai")))]

\* the row order of a group_by result is not specified: every order can occur
GroupOrders(lf) ==
    LET ks == GroupKeys(Selected(lf))
    IN {o \in [1..Cardinality(ks) -> ks] : \A i, j \in DOMAIN o : o[i] = o[j] => i = j}

group_by_agg(rows, order) == [i \in 1..Len(order) |-> AggRow(rows, order[i])]

prepare_ungrouped(lf, order) ==
    LET rows == Selected(lf)
    IN [i \in 1..Len(rows) |-> AggRow(<<rows[i]>>, KeyOf(rows[i]))]

prepare_daioe_level1(lf, order) == group_by_agg(Selected(lf), order)

----------------------------------------------------------------------------
(* merge_months_with_daioe *)

\* join keys match on equal non-null values; null matches nothing
JoinEq(a, b) == a # Null /\ b # Null /\ a = b

MatchesCodeOnly(l, right) ==
    SelectSeq(right, LAMBDA r : JoinEq(l.code_1, r.ssyk_code))

Matches(l, right) ==
    SelectSeq(right, LAMBDA r : JoinEq(l.code_1, r.ssyk_code) /\ JoinEq(l.year, r.year))

JoinRow(l, level, weight_sum, daioe_genai, pctl_daioe_genai) ==
    [code_1 |-> l.code_1, month |-> l.month, value |-> l.value, year |-> l.year,
     level |-> level, weight_sum |-> weight_sum, daioe_genai |-> daioe_genai,
     pctl_daioe_genai |-> pctl_daioe_genai]

JoinInnerRow(l, right) ==
    LET ms == Matches(l, right)
    IN [i \in 1..Len(ms) |->
          JoinRow(l, ms[i].level, ms[i].weight_sum, ms[i].daioe_genai,
                  ms[i].pctl_daioe_genai)]

\* how="left": an unmatched left row is kept once, with null right columns
JoinLeftRow(l, right) ==
    LET ms == Matches(l, right)
    IN IF ms = <<>> THEN <<JoinRow(l, Null, Null, Null, Null)>>
       ELSE [i \in 1..Len(ms) |->
               JoinRow(l, ms[i].level, ms[i].weight_sum, ms[i].daioe_genai,
                       ms[i].pctl_daioe_genai)]

RECURSIVE join_left(_, _)
join_left(left, right) ==
    IF left = <<>> THEN <<>>
    ELSE JoinLeftRow(Head(left), right) \o join_left(Tail(left), right)

drop_level(r) == [f \in DOMAIN r \ {"level"} |-> r[f]]

\* the row order of a join result is not specified: every order can occur
RowOrders(n) == {p \in [1..n -> 1..n] : \A i, j \in 1..n : p[i] = p[j] => i = j}

JoinLen(scb_clean, daioe_lvl1) == Len(join_left(scb_clean, daioe_lvl1))

merge_months_with_daioe(scb_clean, daioe_lvl1, order) ==
    LET j == join_left(scb_clean, daioe_lvl1)
    IN [i \in 1..Len(j) |-> drop_level(j[order[i]])]

----------------------------------------------------------------------------
(* Inputs: the tables the two sources can hold *)

Tables(rows, n) == UNION {[1..k -> rows] : k \in 0..n}

\* monthly rows: code_1 with and without the "0" prefix, with a "0" elsewhere,
\* empty and missing; month well formed, malformed, too short and missing
ScbCodes == {Null, Some(StrEmpty), Some(Str0), Some(Str1), Some(Str01), Some(Str10)}
ScbMonths == {Null, Some(M2020M01), Some(M2021M12), Some(M20M1), Some(M202), Some(MSp2020)}
ScbValues == {5, 7}
ScbRows == [code_1 : ScbCodes, month : ScbMonths, value : ScbValues]

DaioeLevels == {Null, Some(SSYK1), Some(SSYK2)}
DaioeCodes == {Null, Some(Str1)}
DaioeYears == {Some(2020), Some(2021)}
DaioeWeights == {Null, Some(-4), Some(-3), Some(10), Some(11)}
DaioeRows ==
    [level : DaioeLevels, ssyk_code : DaioeCodes, year : DaioeYears,
     weight_sum : DaioeWeights, daioe_genai : {Some(1)},
     pctl_daioe_genai : {Some(50)}, age : {Some(Str1)}]

\* the smaller tables behind the two URLs in a run of main()
MainScbRowSet ==
    [code_1 : {Some(Str1)},
     month : {Some(M2020M01), Some(M2021M12), Some(M20M1)}, value : {5}]
    \cup [code_1 : {Some(Str0)}, month : {Some(M2020M01)}, value : {5}]
MainDaioeRowSet ==
    [level : {Some(SSYK1), Some(SSYK2)}, ssyk_code : DaioeCodes, year : {Some(2020)},
     weight_sum : {Some(10), Some(11)}, daioe_genai : {Some(1)},
     pctl_daioe_genai : {Some(50)}, age : {Some(Str1)}]

NoFile == [state |-> "none", rows |-> <<>>]
PartialFile == [state |-> "partial", rows |-> <<>>]
FullFile(rows) == [state |-> "full", rows |-> rows]

Event(ev, ok, rows) == [ev |-> ev, ok |-> ok, rows |-> rows]

PropagateCaught(ok, next) == next

\* main() has no try/except: a raised exception ends the run where it is raised
Propagate(ok, next) == IF ok THEN next ELSE "failed"

\* inspect_lazy: the row count is collected; returns the count it prints
inspect_lazy(lf) == Len(lf)

----------------------------------------------------------------------------
(* main() *)

Init ==
    /\ pc = "start"
    /\ dataDirExists \in BOOLEAN
    /\ outFile = NoFile
    /\ log = <<>>
    /\ scb_src \in Tables(MainScbRowSet, MainScbRows)
    /\ daioe_src \in Tables(MainDaioeRowSet, MainDaioeRows)
    /\ scb_lf = <<>>
    /\ daioe_lf = <<>>
    /\ scb_clean_lf = <<>>
    /\ daioe_lvl1_lf = <<>>
    /\ scb_months_lf = <<>>

\* Step 1/7: setup_paths, data_dir.mkdir(parents=True, exist_ok=True)
SetupPaths ==
    /\ pc = "start"
    /\ \E ok \in BOOLEAN :
        /\ pc' = Propagate(ok, "paths")
        /\ dataDirExists' = (dataDirExists \/ ok)
        /\ log' = Append(log, Event("mkdir", ok, 0))
    /\ UNCHANGED <<outFile, scb_src, daioe_src, scb_lf, daioe_lf, scb_clean_lf,
                   daioe_lvl1_lf, scb_months_lf>>

\* Step 2/7: load_sources
LoadSources ==
    /\ pc = "paths"
    /\ \E ok \in BOOLEAN :
        /\ pc' = Propagate(ok, "loaded")
        /\ log' = Append(log, Event("load", ok, 0))
        /\ IF ok THEN daioe_lf' = daioe_src /\ scb_lf' = scb_src
           ELSE UNCHANGED <<daioe_lf, scb_lf>>
    /\ UNCHANGED <<dataDirExists, outFile, scb_src, daioe_src, scb_clean_lf,
                   daioe_lvl1_lf, scb_months_lf>>

\* Step 3/7: daioe_lf.head(5).collect()
PreviewDaioe ==
    /\ pc = "loaded"
    /\ \E ok \in BOOLEAN :
        /\ pc' = Propagate(ok, "daioe_previewed")
        /\ log' = Append(log, Event("preview_daioe", ok, 0))
    /\ UNCHANGED <<dataDirExists, outFile, scb_src, daioe_src, scb_lf, daioe_lf,
                   scb_clean_lf, daioe_lvl1_lf, scb_months_lf>>

\* Step 3/7: scb_lf.head(5).collect()
PreviewScb ==
    /\ pc = "daioe_previewed"
    /\ \E ok \in BOOLEAN :
        /\ pc' = Propagate(ok, "scb_previewed")
        /\ log' = Append(log, Event("preview_scb", ok, 0))
    /\ UNCHANGED <<dataDirExists, outFile, scb_src, daioe_src, scb_lf, daioe_lf,
                   scb_clean_lf, daioe_lvl1_lf, scb_months_lf>>

\* Step 4/7: scb_clean_lf = clean_scb_months(scb_lf), a plan: nothing runs yet
CleanScb ==
    /\ pc = "scb_previewed"
    /\ pc' = "clean_built"
    /\ scb_clean_lf' = clean_scb_months(scb_lf)
    /\ log' = Append(log, Event("build_clean", TRUE, 0))
    /\ UNCHANGED <<dataDirExists, outFile, scb_src, daioe_src, scb_lf, daioe_lf,
                   daioe_lvl1_lf, scb_months_lf>>

\* inspect_lazy("Clean SCB", scb_clean_lf)
InspectClean ==
    /\ pc = "clean_built"
    /\ \E ok \in {b \in BOOLEAN : clean_raises(scb_lf) => ~b} :
        /\ pc' = Propagate(ok, "clean_inspected")
        /\ log' = Append(log, Event("inspect_clean", ok,
                                     IF ok THEN inspect_lazy(scb_clean_lf) ELSE 0))
    /\ UNCHANGED <<dataDirExists, outFile, scb_src, daioe_src, scb_lf, daioe_lf,
                   scb_clean_lf, daioe_lvl1_lf, scb_months_lf>>

\* Step 5/7: daioe_lvl1_lf = prepare_daioe_level1(daioe_lf)
PrepareDaioe ==
    /\ pc = "clean_inspected"
    /\ pc' = "lvl1_built"
    /\ \E order \in GroupOrders(daioe_lf) :
        daioe_lvl1_lf' = prepare_daioe_level1(daioe_lf, order)
    /\ log' = Append(log, Event("build_lvl1", TRUE, 0))
    /\ UNCHANGED <<dataDirExists, outFile, scb_src, daioe_src, scb_lf, daioe_lf,
                   scb_clean_lf, scb_months_lf>>

\* inspect_lazy("DAIOE level-1", daioe_lvl1_lf)
InspectDaioe ==
    /\ pc = "lvl1_built"
    /\ \E ok \in BOOLEAN :
        /\ pc' = Propagate(ok, "lvl1_inspected")
        /\ log' = Append(log, Event("inspect_lvl1", ok,
                                     IF ok THEN inspect_lazy(daioe_lvl1_lf) ELSE 0))
    /\ UNCHANGED <<dataDirExists, outFile, scb_src, daioe_src, scb_lf, daioe_lf,
                   scb_clean_lf, daioe_lvl1_lf, scb_months_lf>>

\* Step 6/7: scb_months_lf = merge_months_with_daioe(scb_clean_lf, daioe_lvl1_lf)
Merge ==
    /\ pc = "lvl1_inspected"
    /\ pc' = "merged_built"
    /\ \E order \in RowOrders(JoinLen(scb_clean_lf, daioe_lvl1_lf)) :
        scb_months_lf' = merge_months_with_daioe(scb_clean_lf, daioe_lvl1_lf, order)
    /\ log' = Append(log, Event("build_merged", TRUE, 0))
    /\ UNCHANGED <<dataDirExists, outFile, scb_src, daioe_src, scb_lf, daioe_lf,
                   scb_clean_lf, daioe_lvl1_lf>>

\* inspect_lazy("Merged output", scb_months_lf)
InspectMerged ==
    /\ pc = "merged_built"
    /\ \E ok \in {b \in BOOLEAN : clean_raises(scb_lf) => ~b} :
        /\ pc' = Propagate(ok, "merged_inspected")
        /\ log' = Append(log, Event("inspect_merged", ok,
                                     IF ok THEN inspect_lazy(scb_months_lf) ELSE 0))
    /\ UNCHANGED <<dataDirExists, outFile, scb_src, daioe_src, scb_lf, daioe_lf,
                   scb_clean_lf, daioe_lvl1_lf, scb_months_lf>>

ExportUninspected ==
    /\ pc = "merged_built"
    /\ pc' = "done"
    /\ log' = Append(log, Event("export", TRUE, 0))
    /\ outFile' = FullFile(scb_months_lf)
    /\ UNCHANGED <<dataDirExists, scb_src, daioe_src, scb_lf, daioe_lf,
                   scb_clean_lf, daioe_lvl1_lf, scb_months_lf>>

\* Step 7/7: scb_months_lf.sink_parquet(output_path).  The sink cannot write
\* into a missing directory; a failed sink may leave a partial file behind.
Export ==
    /\ pc = "merged_inspected"
    /\ \E ok \in {b \in BOOLEAN : (clean_raises(scb_lf) \/ ~dataDirExists) => ~b} :
        /\ pc' = Propagate(ok, "done")
        /\ log' = Append(log, Event("export", ok, 0))
        /\ IF ok THEN outFile' = FullFile(scb_months_lf)
           ELSE outFile' \in {NoFile, PartialFile}
    /\ UNCHANGED <<dataDirExists, scb_src, daioe_src, scb_lf, daioe_lf,
                   scb_clean_lf, daioe_lvl1_lf, scb_months_lf>>

Next ==
    \/ SetupPaths
    \/ LoadSources
    \/ PreviewDaioe
    \/ PreviewScb
    \/ CleanScb
    \/ InspectClean
    \/ PrepareDaioe
    \/ InspectDaioe
    \/ Merge
    \/ InspectMerged
    \/ Export

Spec == Init /\ [][Next]_vars

----------------------------------------------------------------------------
(* clean_scb_months applied to every monthly table within the bounds *)

InitClean ==
    /\ pc = "clean_in"
    /\ dataDirExists = FALSE
    /\ outFile = NoFile
    /\ log = <<>>
    /\ scb_src = <<>>
    /\ daioe_src = <<>>
    /\ scb_lf \in Tables(ScbRows, MaxScbRows)
    /\ daioe_lf = <<>>
    /\ scb_clean_lf = <<>>
    /\ daioe_lvl1_lf = <<>>
    /\ scb_months_lf = <<>>

CleanCollect ==
    /\ pc = "clean_in"
    /\ IF clean_raises(scb_lf)
       THEN pc' = "failed" /\ UNCHANGED scb_clean_lf
       ELSE pc' = "clean_out" /\ scb_clean_lf' = clean_scb_months(scb_lf)
    /\ UNCHANGED <<dataDirExists, outFile, log, scb_src, daioe_src, scb_lf,
                   daioe_lf, daioe_lvl1_lf, scb_months_lf>>

NextClean == CleanCollect

SpecClean == InitClean /\ [][NextClean]_vars

----------------------------------------------------------------------------
(* prepare_daioe_level1 applied to every exposure table within the bounds *)

InitAgg ==
    /\ pc = "agg_in"
    /\ dataDirExists = FALSE
    /\ outFile = NoFile
    /\ log = <<>>
    /\ scb_src = <<>>
    /\ daioe_src = <<>>
    /\ scb_lf = <<>>
    /\ daioe_lf \in Tables(DaioeRows, MaxDaioeRows)
    /\ scb_clean_lf = <<>>
    /\ daioe_lvl1_lf = <<>>
    /\ scb_months_lf = <<>>

AggCollect ==
    /\ pc = "agg_in"
    /\ pc' = "agg_out"
    /\ \E order \in GroupOrders(daioe_lf) :
        daioe_lvl1_lf' = prepare_daioe_level1(daioe_lf, order)
    /\ UNCHANGED <<dataDirExists, outFile, log, scb_src, daioe_src, scb_lf,
                   daioe_lf, scb_clean_lf, scb_months_lf>>

NextAgg == AggCollect

SpecAgg == InitAgg /\ [][NextAgg]_vars

----------------------------------------------------------------------------
(* Properties *)

StartsWith0(code) == code # Null /\ Len(Get(code)) >= 1 /\ Get(code)[1] = "0"

FourDigits(month) ==
    /\ month # Null
    /\ Len(Get(month)) >= 4
    /\ \A i \in 1..4 : Get(month)[i] \in Digits

Ran(ev) == \E i \in DOMAIN log : log[i].ev = ev

\* C1: the cleaned monthly frame has no row whose code_1 begins with "0".
C1_NoZeroPrefix ==
    pc = "clean_out" =>
        \A i \in DOMAIN scb_clean_lf : ~StartsWith0(scb_clean_lf[i].code_1)

C1_Witness ==
    /\ pc = "clean_out"
    /\ \E i \in DOMAIN scb_lf : scb_lf[i].code_1 = Some(Str01)
    /\ \E i \in DOMAIN scb_clean_lf : scb_clean_lf[i].code_1 = Some(Str10)

\* C9: the cleaner drops only the rows whose code_1 starts with "0": the output,
\* without its year column, is the input minus those rows (a row with a missing
\* code_1 is kept).
C9_OnlyZeroPrefixDropped ==
    pc = "clean_out" =>
        [i \in DOMAIN scb_clean_lf |->
            [code_1 |-> scb_clean_lf[i].code_1, month |-> scb_clean_lf[i].month,
             value |-> scb_clean_lf[i].value]]
        = SelectSeq(scb_lf, LAMBDA r : ~StartsWith0(r.code_1))

\* C4: every row of the cleaned frame that has a month has a year equal to the
\* integer parse of the first four characters of that month.
C4_YearIsParsedPrefix ==
    pc = "clean_out" =>
        \A i \in DOMAIN scb_clean_lf :
            scb_clean_lf[i].month # Null =>
            /\ FourDigits(scb_clean_lf[i].month)
            /\ scb_clean_lf[i].year
                 = Some(ParseDigits(SubSeq(Get(scb_clean_lf[i].month), 1, 4)))

\* C5: a surviving row whose month is present and does not begin with four digits
\* makes the year derivation fail: no cleaned frame is produced that holds such a
\* row with a null year.
C5_MalformedMonthFails ==
    pc = "clean_out" =>
        ~\E i \in DOMAIN scb_clean_lf :
            /\ scb_clean_lf[i].month # Null
            /\ ~FourDigits(scb_clean_lf[i].month)
            /\ scb_clean_lf[i].year = Null

\* C3: the aggregate has one row per (level, ssyk_code, year) and every row has
\* level SSYK1.
C3_UniqueGroupKey ==
    pc = "agg_out" =>
        /\ \A i, j \in DOMAIN daioe_lvl1_lf :
              (/\ daioe_lvl1_lf[i].level = daioe_lvl1_lf[j].level
               /\ daioe_lvl1_lf[i].ssyk_code = daioe_lvl1_lf[j].ssyk_code
               /\ daioe_lvl1_lf[i].year = daioe_lvl1_lf[j].year) => i = j
        /\ \A i \in DOMAIN daioe_lvl1_lf : daioe_lvl1_lf[i].level = Some(SSYK1)

C3_Witness ==
    /\ pc = "agg_out"
    /\ Len(daioe_lvl1_lf) = 1
    /\ Cardinality({i \in DOMAIN daioe_lf : daioe_lf[i].level = Some(SSYK1)}) >= 2

\* the input rows of level SSYK1 that fall in the group of the output row o and
\* carry a weight
WeightedInGroup(o) ==
    SelectSeq(daioe_lf, LAMBDA r :
        /\ r.level = Some(SSYK1)
        /\ r.ssyk_code = o.ssyk_code
        /\ r.year = o.year
        /\ r.weight_sum # Null)

RECURSIVE WeightTotal(_)
WeightTotal(rows) ==
    IF rows = <<>> THEN 0 ELSE Get(Head(rows).weight_sum) + WeightTotal(Tail(rows))

\* C7: the weight_sum of a group is the mean of the group's weights truncated
\* toward zero, never rounded: with n weights of total t it is the integer w with
\* w*n <= t < (w+1)*n  when t >= 0  and  (w-1)*n < t <= w*n  when t <= 0.
\* Missing weights are no values of the group; a group without any has none.
C7_TruncatedMean ==
    pc = "agg_out" =>
        \A i \in DOMAIN daioe_lvl1_lf :
            LET o == daioe_lvl1_lf[i]
                n == Len(WeightedInGroup(o))
                t == WeightTotal(WeightedInGroup(o))
            IN IF n = 0 THEN o.weight_sum = Null
               ELSE /\ o.weight_sum # Null
                    /\ LET w == Get(o.weight_sum)
                       IN /\ t >= 0 => (w * n <= t /\ t < (w + 1) * n)
                          /\ t <= 0 => ((w - 1) * n < t /\ t <= w * n)

\* weights 10 and 11 in one group give 10
C7_Witness ==
    /\ pc = "agg_out"
    /\ \E i, j \in DOMAIN daioe_lf :
          /\ i # j
          /\ daioe_lf[i].level = Some(SSYK1) /\ daioe_lf[j].level = Some(SSYK1)
          /\ daioe_lf[i].ssyk_code = daioe_lf[j].ssyk_code
          /\ daioe_lf[i].year = daioe_lf[j].year
          /\ daioe_lf[i].weight_sum = Some(10) /\ daioe_lf[j].weight_sum = Some(11)
    /\ Len(daioe_lvl1_lf) = 1
    /\ daioe_lvl1_lf[1].weight_sum = Some(10)

\* C2: once merged, the merged frame has as many rows as the cleaned frame.
C2_RowCountPreserved ==
    Ran("build_merged") => Len(scb_months_lf) = Len(scb_clean_lf)

\* two exposure rows share the key of a cleaned row, another cleaned row has no match
C2_Witness ==
    /\ Ran("build_merged")
    /\ Len(scb_clean_lf) = 2
    /\ Len(daioe_lvl1_lf) = 1
    /\ Cardinality({i \in DOMAIN daioe_lf : daioe_lf[i].level = Some(SSYK1)}) = 2
    /\ \E i, j \in DOMAIN scb_months_lf :
          scb_months_lf[i].weight_sum = Null /\ scb_months_lf[j].weight_sum # Null

Unmatched(l) ==
    ~\E k \in DOMAIN daioe_lvl1_lf :
        daioe_lvl1_lf[k].ssyk_code = l.code_1 /\ daioe_lvl1_lf[k].year = l.year

NullMeasures(l) ==
    [code_1 |-> l.code_1, month |-> l.month, value |-> l.value, year |-> l.year,
     weight_sum |-> Null, daioe_genai |-> Null, pctl_daioe_genai |-> Null]

\* C6: a cleaned row with no aggregate row of its code and year is in the merged
\* frame with its monthly attributes as they were and null in every measure column,
\* as many times as it is in the cleaned frame.
C6_UnmatchedRowsNull ==
    Ran("build_merged") =>
        \A i \in DOMAIN scb_clean_lf :
            Unmatched(scb_clean_lf[i]) =>
                Cardinality({j \in DOMAIN scb_months_lf :
                                scb_months_lf[j] = NullMeasures(scb_clean_lf[i])})
                = Cardinality({j \in DOMAIN scb_clean_lf :
                                scb_clean_lf[j] = scb_clean_lf[i]})

\* a cleaned row of 2021 beside an aggregate row of the same code for 2020
C6_Witness ==
    /\ Ran("build_merged")
    /\ \E i \in DOMAIN scb_clean_lf :
          /\ Unmatched(scb_clean_lf[i])
          /\ scb_clean_lf[i].year = Some(2021)
          /\ \E k \in DOMAIN daioe_lvl1_lf :
                daioe_lvl1_lf[k].ssyk_code = scb_clean_lf[i].code_1

\* C8: a failed step is the last step of the run, and after a failure before the
\* export, the export is never invoked and nothing is written.
C8_FailureEndsRun ==
    /\ \A i \in DOMAIN log : ~log[i].ok => (i = Len(log) /\ pc = "failed")
    /\ (\E i \in DOMAIN log : ~log[i].ok /\ log[i].ev # "export")
          => (~Ran("export") /\ outFile = NoFile)

C8_Witness ==
    /\ pc = "failed"
    /\ Len(log) = 6
    /\ log[6] = Event("inspect_clean", FALSE, 0)
    /\ outFile = NoFile

StageOrder ==
    <<"mkdir", "load", "preview_daioe", "preview_scb", "build_clean",
      "inspect_clean", "build_lvl1", "inspect_lvl1", "build_merged",
      "inspect_merged", "export">>

\* C10: the steps of a run happen in the one fixed order: the directory first,
\* then the load, each frame inspected right after it is built, the export last
\* and once, and only when the data directory exists.
C10_FixedOrder ==
    /\ Len(log) <= Len(StageOrder)
    /\ \A i \in DOMAIN log : log[i].ev = StageOrder[i]
    /\ Ran("export") => dataDirExists

C10_Witness ==
    /\ pc = "done"
    /\ Len(log) = 11
    /\ outFile.state = "full"

============================================================================
